---------------------------- MODULE Spec2Model ----------------------------
(***************************************************************************)
(* Zyrex code relocation core: instruction analysis (Analysis.c) and       *)
(* relocation with offset fix-up (Relocation.c).                           *)
(*                                                                         *)
(* Memory is modelled byte by byte.  Addresses and every ZyanU64/ZyanI64   *)
(* value are 8-byte little-endian sequences with wrap-around arithmetic,   *)
(* so that the casts to ZyanI8/ZyanI16/ZyanI32 of the source truncate      *)
(* exactly as they do in C.  Offsets and counters that stay small are      *)
(* plain integers.                                                         *)
(***************************************************************************)
EXTENDS Integers, Sequences, FiniteSets, TLC

(***************************************************************************)
(* Fixed-width arithmetic                                                  *)
(***************************************************************************)

Byte == 0..255

\* The low k bytes (little endian) of the two's complement form of n.
LE(n, k) ==
    [i \in 1..k |->
        IF i <= 4
        THEN (n \div (CASE i = 1 -> 1 [] i = 2 -> 256 [] i = 3 -> 65536
                        [] OTHER -> 16777216)) % 256
        ELSE IF n < 0 THEN 255 ELSE 0]

\* An integer as a 64-bit word.
W64(n) == LE(n, 8)

RECURSIVE AddC(_, _, _)
AddC(a, b, c) ==
    IF a = <<>> THEN <<>>
    ELSE LET s == Head(a) + Head(b) + c
         IN  <<s % 256>> \o AddC(Tail(a), Tail(b), s \div 256)

\* 64-bit addition and subtraction, modulo 2^64.
Add64(a, b) == AddC(a, b, 0)
Sub64(a, b) == AddC(a, [i \in 1..Len(b) |-> 255 - b[i]], 1)

\* Sign extension of a k-byte little-endian value to 64 bits.
SExt(bytes) ==
    bytes \o [i \in 1..(8 - Len(bytes)) |->
                 IF bytes[Len(bytes)] >= 128 THEN 255 ELSE 0]

\* Truncation of a 64-bit word to its low k bytes: (ZyanI8), (ZyanI16), (ZyanI32).
Trunc(w, k) == SubSeq(w, 1, k)

IsNeg(w) == w[8] >= 128
ULess(a, b) ==
    \E i \in 1..8 : a[i] < b[i] /\ \A j \in (i + 1)..8 : a[j] = b[j]
\* a < b for ZyanI64 values.
SLess(a, b) == IF IsNeg(a) # IsNeg(b) THEN IsNeg(a) ELSE ULess(a, b)


(***************************************************************************)
(* Build configuration and the instruction decoder                         *)
(***************************************************************************)

\* The machine mode the decoder is initialised with: 64 for a ZYAN_X64 build
\* (ZYDIS_MACHINE_MODE_LONG_64), 32 for a ZYAN_X86 build
\* (ZYDIS_MACHINE_MODE_LONG_COMPAT_32).
MachineModes == {32, 64}

\* Jcc mnemonics in condition-code order: opcode 70+cc (rel8), 0F 80+cc (near).
JccMnemonics ==
    << "JO", "JNO", "JB", "JNB", "JZ", "JNZ", "JBE", "JNBE",
       "JS", "JNS", "JP", "JNP", "JL", "JNL", "JLE", "JNLE" >>

\* The byte of buf at a zero-based offset.
At(buf, o) == buf[o + 1]

\* The decoder's failure status (malformed or truncated input).
DecodeFailed == [ok |-> FALSE]

\* The fields of ZydisDecodedInstruction the relocation core reads.
Decoded(len, mn, rel, modrm, mod, rm, immoff, immsize, immrel, immval, dispoff, dispsize, dispval) ==
    [ ok |-> TRUE, length |-> len, mnemonic |-> mn,
      attrib_is_relative |-> rel, attrib_has_modrm |-> modrm,
      modrm_mod |-> mod, modrm_rm |-> rm,
      imm_offset |-> immoff, imm_size |-> immsize, imm_is_relative |-> immrel,
      imm_value |-> immval,
      disp_offset |-> dispoff, disp_size |-> dispsize, disp_value |-> dispval ]

\* An instruction without immediate or displacement.
DecPlain(len, mn) ==
    Decoded(len, mn, FALSE, FALSE, 0, 0, 0, 0, FALSE, W64(0), 0, 0, W64(0))

\* A branch whose immediate of immsize bits at immoff is relative.
DecBranch(len, mn, immoff, immsize, buf, off) ==
    Decoded(len, mn, TRUE, FALSE, 0, 0, immoff, immsize, TRUE,
            SExt(SubSeq(buf, off + immoff + 1, off + immoff + immsize \div 8)),
            0, 0, W64(0))

\* An instruction with a plain 32-bit immediate.
DecImm32(len, mn, immoff, buf, off) ==
    Decoded(len, mn, FALSE, FALSE, 0, 0, immoff, 32, FALSE,
            SExt(SubSeq(buf, off + immoff + 1, off + immoff + 4)),
            0, 0, W64(0))

\* An instruction with ModR/M mod = 00, rm = 101 and a disp32 at dispoff:
\* RIP-relative in 64-bit mode, absolute in 32-bit mode.
DecDisp32(len, mn, dispoff, rel, buf, off) ==
    Decoded(len, mn, rel, TRUE, 0, 5, 0, 0, FALSE, W64(0), dispoff, 32,
            SExt(SubSeq(buf, off + dispoff + 1, off + dispoff + 4)))

\* ZydisDecoderDecodeInstruction on buf + off with Len(buf) - off bytes
\* left, for the subset of the x86 encoding this model covers; every other
\* byte sequence, and an instruction cut by the end of the buffer, fails.
DecodeInstruction(mode, buf, off) ==
    LET n  == Len(buf) - off
        b0 == IF n >= 1 THEN At(buf, off) ELSE -1
        b1 == IF n >= 2 THEN At(buf, off + 1) ELSE -1
        b2 == IF n >= 3 THEN At(buf, off + 2) ELSE -1
        Fits(len, ins) == IF n >= len THEN ins ELSE DecodeFailed
    IN  CASE b0 = 144 -> DecPlain(1, "NOP")                         \* 90
          [] b0 = 195 -> DecPlain(1, "RET")                         \* C3
          [] b0 = 235 ->                                            \* EB ib
                Fits(2, DecBranch(2, "JMP", 1, 8, buf, off))
          [] b0 \in 112..127 ->                                     \* 7x ib
                Fits(2, DecBranch(2, JccMnemonics[b0 - 111], 1, 8, buf, off))
          [] b0 = 224 -> Fits(2, DecBranch(2, "LOOPNE", 1, 8, buf, off))
          [] b0 = 225 -> Fits(2, DecBranch(2, "LOOPE", 1, 8, buf, off))
          [] b0 = 226 -> Fits(2, DecBranch(2, "LOOP", 1, 8, buf, off))
          [] b0 = 227 ->                                            \* E3 ib
                Fits(2, DecBranch(2, IF mode = 64 THEN "JRCXZ" ELSE "JECXZ",
                                  1, 8, buf, off))
          [] b0 = 103 /\ b1 = 227 ->                                \* 67 E3 ib
                Fits(3, DecBranch(3, IF mode = 64 THEN "JECXZ" ELSE "JCXZ",
                                  2, 8, buf, off))
          [] b0 = 233 ->                                            \* E9 id
                Fits(5, DecBranch(5, "JMP", 1, 32, buf, off))
          [] b0 = 232 ->                                            \* E8 id
                Fits(5, DecBranch(5, "CALL", 1, 32, buf, off))
          [] b0 = 15 /\ b1 \in 128..143 ->                          \* 0F 8x id
                Fits(6, DecBranch(6, JccMnemonics[b1 - 127], 2, 32, buf, off))
          [] mode = 32 /\ b0 = 102 /\ b1 = 233 ->                   \* 66 E9 iw
                Fits(4, DecBranch(4, "JMP", 2, 16, buf, off))
          [] mode = 32 /\ b0 = 102 /\ b1 = 15 /\ b2 \in 128..143 -> \* 66 0F 8x iw
                Fits(5, DecBranch(5, JccMnemonics[b2 - 127], 3, 16, buf, off))
          [] b0 = 184 ->                                            \* B8 id
                Fits(5, DecImm32(5, "MOV", 1, buf, off))
          [] b0 = 139 /\ b1 = 5 ->                                  \* 8B 05 id
                Fits(6, DecDisp32(6, "MOV", 2, mode = 64, buf, off))
          [] mode = 64 /\ b0 = 72 /\ b1 = 139 /\ b2 = 5 ->          \* 48 8B 05 id
                Fits(7, DecDisp32(7, "MOV", 3, TRUE, buf, off))
          [] mode = 32 /\ b0 = 72 -> DecPlain(1, "DEC")             \* 48
          [] OTHER -> DecodeFailed

(***************************************************************************)
(* Analysis.c                                                              *)
(***************************************************************************)

\* ZyrexIsRelativeBranchInstruction
ZyrexIsRelativeBranchInstruction(instruction) ==
    IF ~instruction.imm_is_relative THEN FALSE
    ELSE instruction.mnemonic \in
            { "JMP", "JO", "JNO", "JB", "JNB", "JZ", "JNZ", "JBE", "JNBE",
              "JS", "JNS", "JP", "JNP", "JL", "JNL", "JLE", "JNLE",
              "JCXZ", "JECXZ", "JRCXZ", "LOOP", "LOOPE", "LOOPNE" }

\* ZyrexIsRelativeMemoryInstruction
ZyrexIsRelativeMemoryInstruction(instruction) ==
    instruction.attrib_has_modrm
        /\ instruction.modrm_mod = 0 /\ instruction.modrm_rm = 5

\* ZyrexCalcAbsoluteAddress: the end of the instruction at runtime_address
\* plus its signed relative operand.
ZyrexCalcAbsoluteAddress(instruction, runtime_address) ==
    Add64(Add64(runtime_address, W64(instruction.length)),
          IF instruction.imm_is_relative THEN instruction.imm_value
          ELSE instruction.disp_value)

\* The value (ZyanU8)(-1) of `outgoing`: no internal target.
OutgoingNone == 255

\* (ZyanU8)x
U8(x) == x % 256

\* The `incoming` vector before ZyanVectorInit has run on it.
NoVector == [init |-> FALSE, data |-> <<>>]

\* A faulty variant of AnalyzedItem: address_offset is taken after the
\* offset has been advanced by the length of the instruction.
AnalyzedItemLate(decoded, source_address, offset) ==
    LET relative == decoded.attrib_is_relative
    IN  [ address_offset          |-> offset + decoded.length,
          address                 |-> Add64(source_address, W64(offset)),
          instruction             |-> decoded,
          has_relative_target     |-> relative,
          has_external_target     |-> relative,
          absolute_target_address |->
              IF relative
              THEN ZyrexCalcAbsoluteAddress(decoded,
                       Add64(source_address, W64(offset)))
              ELSE W64(0),
          is_internal_target      |-> FALSE,
          incoming                |-> NoVector,
          outgoing                |-> OutgoingNone ]

\* One iteration of the first pass: the item pushed for the instruction
\* decoded at `offset`.
AnalyzedItem(decoded, source_address, offset) ==
    LET relative == decoded.attrib_is_relative
    IN  [ address_offset          |-> offset,
          address                 |-> Add64(source_address, W64(offset)),
          instruction             |-> decoded,
          has_relative_target     |-> relative,
          has_external_target     |-> relative,
          absolute_target_address |->
              IF relative
              THEN ZyrexCalcAbsoluteAddress(decoded,
                       Add64(source_address, W64(offset)))
              ELSE W64(0),
          is_internal_target      |-> FALSE,
          incoming                |-> NoVector,
          outgoing                |-> OutgoingNone ]

\* The state of a running analysis: the status so far, the instruction
\* vector, the offset of the decode loop, and the number of calls made that
\* allocate memory (ZyanVectorInit, and ZyanVectorPushBack on a full vector).
AnalysisStart ==
    [status |-> "SUCCESS", instructions |-> <<>>, offset |-> 0, calls |-> 0]

\* A call that allocates memory: the fail_at-th of them fails (none when
\* fail_at is 0) and ZYAN_CHECK returns its status.
Allocating(state, fail_at) ==
    [state EXCEPT
        !.calls  = @ + 1,
        !.status = IF state.calls + 1 = fail_at THEN "OUT_OF_MEMORY" ELSE @]

\* First pass, body of the loop: decode at the offset, fill the item, push
\* it, advance.
DecodeStep(mode, buf, source_address, fail_at, state) ==
    LET decoded == DecodeInstruction(mode, buf, state.offset)
        pushed  == Allocating(state, fail_at)
    IN  IF ~decoded.ok THEN [state EXCEPT !.status = "DECODE_FAILED"]
        ELSE IF pushed.status # "SUCCESS" THEN pushed
        ELSE [pushed EXCEPT
                 !.instructions =
                     Append(@, AnalyzedItem(decoded, source_address,
                                            state.offset)),
                 !.offset = @ + decoded.length]

\* A faulty variant of DecodeRun: the loop goes on while offset <=
\* bytes_to_analyze.
RECURSIVE DecodeRunInclusive(_, _, _, _, _, _, _)
DecodeRunInclusive(mode, buf, source_address, to_analyze, fail_at, state, n) ==
    IF n = 0 \/ state.status # "SUCCESS" \/ ~(state.offset <= to_analyze)
    THEN state
    ELSE CHOOSE run \in
             { DecodeRunInclusive(mode, buf, source_address, to_analyze,
                                  fail_at, next, n - 1) :
                 next \in { DecodeStep(mode, buf, source_address, fail_at,
                                       state) } } : TRUE

\* At most n iterations of the loop of the first pass.  (Here and in the
\* loops below, the state after one part of a loop is bound as the one
\* element of a set, so that it is computed once, before the rest of the
\* loop runs on it.)
RECURSIVE DecodeRun(_, _, _, _, _, _, _)
DecodeRun(mode, buf, source_address, to_analyze, fail_at, state, n) ==
    IF n = 0 \/ state.status # "SUCCESS" \/ ~(state.offset < to_analyze)
    THEN state
    ELSE CHOOSE run \in
             { DecodeRun(mode, buf, source_address, to_analyze, fail_at,
                         next, n - 1) :
                 next \in { DecodeStep(mode, buf, source_address, fail_at,
                                       state) } } : TRUE

\* First pass: decode until offset >= bytes_to_analyze (in runs of 16
\* iterations).
RECURSIVE DecodePass(_, _, _, _, _, _)
DecodePass(mode, buf, source_address, to_analyze, fail_at, state) ==
    CHOOSE pass \in
        { IF run.status # "SUCCESS" \/ ~(run.offset < to_analyze) THEN run
          ELSE DecodePass(mode, buf, source_address, to_analyze, fail_at, run) :
            run \in { DecodeRun(mode, buf, source_address, to_analyze,
                                fail_at, state, 16) } } : TRUE

\* A faulty variant of CrossReferenceStep: the item that targets the current
\* instruction stays marked as having an external target.
CrossReferenceStepKeepingExternal(state, fail_at, i, j) ==
    LET items == state.instructions
    IN  IF state.status # "SUCCESS" THEN state
        ELSE IF ~(items[j].has_relative_target
                    /\ items[j].absolute_target_address = items[i].address)
        THEN state
        ELSE
          LET first   == ~items[i].is_internal_target
              flagged == [state EXCEPT
                             !.instructions[j].outgoing = U8(i - 1),
                             !.instructions[i].is_internal_target = TRUE]
              inited  == IF first THEN Allocating(flagged, fail_at)
                         ELSE flagged
              ready   == IF first /\ inited.status = "SUCCESS"
                         THEN [inited EXCEPT !.instructions[i].incoming =
                                  [init |-> TRUE, data |-> <<>>]]
                         ELSE inited
              pushed  == IF Len(ready.instructions[i].incoming.data) >= 2
                         THEN Allocating(ready, fail_at)
                         ELSE ready
          IN  IF ready.status # "SUCCESS" THEN ready
              ELSE IF pushed.status # "SUCCESS" THEN pushed
              ELSE [pushed EXCEPT !.instructions[i].incoming.data =
                                      Append(@, U8(j - 1))]

\* Second pass, body of the inner loop: item j against current i (indices
\* are one-based here, the stored ids zero-based).  is_internal_target is
\* set before ZyanVectorInit is checked; the incoming vector has room for
\* two ids before ZyanVectorPushBack allocates.
CrossReferenceStep(state, fail_at, i, j) ==
    LET items == state.instructions
    IN  IF state.status # "SUCCESS" THEN state
        ELSE IF ~(items[j].has_relative_target
                    /\ items[j].absolute_target_address = items[i].address)
        THEN state
        ELSE
          LET first   == ~items[i].is_internal_target
              flagged == [state EXCEPT
                             !.instructions[j].has_external_target = FALSE,
                             !.instructions[j].outgoing = U8(i - 1),
                             !.instructions[i].is_internal_target = TRUE]
              inited  == IF first THEN Allocating(flagged, fail_at)
                         ELSE flagged
              ready   == IF first /\ inited.status = "SUCCESS"
                         THEN [inited EXCEPT !.instructions[i].incoming =
                                  [init |-> TRUE, data |-> <<>>]]
                         ELSE inited
              pushed  == IF Len(ready.instructions[i].incoming.data) >= 2
                         THEN Allocating(ready, fail_at)
                         ELSE ready
          IN  IF ready.status # "SUCCESS" THEN ready
              ELSE IF pushed.status # "SUCCESS" THEN pushed
              ELSE [pushed EXCEPT !.instructions[i].incoming.data =
                                      Append(@, U8(j - 1))]

\* The inner loop for j = lo..hi, and the outer loop for i = lo..hi (each
\* range is run as its two halves in order; a failed ZYAN_CHECK has
\* returned, CrossReferenceStep goes no further then).
RECURSIVE CrossReferenceInner(_, _, _, _, _)
CrossReferenceInner(state, fail_at, i, lo, hi) ==
    IF lo > hi THEN state
    ELSE IF lo = hi THEN CrossReferenceStep(state, fail_at, i, lo)
    ELSE CHOOSE done \in
             { CrossReferenceInner(half, fail_at, i, (lo + hi) \div 2 + 1, hi) :
                 half \in { CrossReferenceInner(state, fail_at, i, lo,
                                                (lo + hi) \div 2) } } : TRUE

RECURSIVE CrossReferencePass(_, _, _, _)
CrossReferencePass(state, fail_at, lo, hi) ==
    IF lo > hi THEN state
    ELSE IF lo = hi
    THEN CrossReferenceInner(state, fail_at, lo, 1, Len(state.instructions))
    ELSE CHOOSE done \in
             { CrossReferencePass(half, fail_at, (lo + hi) \div 2 + 1, hi) :
                 half \in { CrossReferencePass(state, fail_at, lo,
                                               (lo + hi) \div 2) } } : TRUE

\* ZyrexAnalyzeInstructions(buffer, length = Len(buf), bytes_to_analyze, ...)
ZyrexAnalyzeInstructions(mode, buf, source_address, to_analyze, fail_at) ==
    CHOOSE result \in UNION
        { { [status |-> second.status, instructions |-> second.instructions,
             bytes_read_set |-> first.status = "SUCCESS",
             bytes_read |-> first.offset] :
              second \in
                  { IF first.status # "SUCCESS" THEN first
                    ELSE CrossReferencePass(first, fail_at, 1,
                                            Len(first.instructions)) } } :
            first \in
                { IF start.status # "SUCCESS" THEN start
                  ELSE DecodePass(mode, buf, source_address, to_analyze,
                                  fail_at, start) :
                    start \in { Allocating(AnalysisStart, fail_at) } } } : TRUE

(***************************************************************************)
(* Relocation.c                                                            *)
(*                                                                         *)
(* A translation context is a record                                       *)
(*   source, destination   addresses of the two buffers (64-bit words)     *)
(*   buffer                the bytes of the source buffer                  *)
(*   memory                the bytes of the destination buffer             *)
(*   bytes_read, bytes_written, instructions_read, translation_map         *)
(*   touched               destination offsets written by the current call *)
(*   strategy              the terminal state of the per-instruction       *)
(*                         state machine the current call ended in         *)
(* ZYAN_ASSERT is compiled out (release build); ZYAN_UNREACHABLE ends the  *)
(* call with status "UNREACHABLE".                                         *)
(***************************************************************************)

ZYAN_INT8_MIN == -128
ZYAN_INT8_MAX == 127
ZYAN_INT16_MIN == -32768
ZYAN_INT16_MAX == 32767
ZYAN_INT32_MIN == -2147483647 - 1
ZYAN_INT32_MAX == 2147483647

\* Stores `bytes` at destination + offset.
Store(context, offset, bytes) ==
    [context EXCEPT
        !.memory  = [k \in DOMAIN @ |->
                        IF k - 1 >= offset /\ k - 1 < offset + Len(bytes)
                        THEN bytes[k - offset] ELSE @[k]],
        !.touched = @ \cup (offset..(offset + Len(bytes) - 1))]

\* ZyrexCalculateRelativeOffset: (ZyanI32)(destination_address -
\* source_address - instruction_length).
ZyrexCalculateRelativeOffset(instruction_length, source_address, destination_address) ==
    Trunc(Sub64(Sub64(destination_address, source_address),
                W64(instruction_length)), 4)

\* ZyrexWriteRelativeJump at destination + offset: E9 and the 32-bit offset
\* of `target` relative to the end of the five bytes.
ZyrexWriteRelativeJump(context, offset, target) ==
    Store(context, offset,
          <<233>> \o ZyrexCalculateRelativeOffset(5,
                         Add64(context.destination, W64(offset)), target))

\* ZyrexUpdateTranslationContext: appends one translation-map item (both
\* offsets are ZyanU8) and advances bytes_written by `length`.
ZyrexUpdateTranslationContext(context, length, offset_source, offset_destination) ==
    [context EXCEPT
        !.translation_map =
            Append(@, [offset_source      |-> U8(offset_source),
                       offset_destination |-> U8(offset_destination)]),
        !.bytes_written = @ + length]

\* The distance ZyrexShouldRewriteBranchInstruction computes, as a ZyanI64.
BranchDistance(context, instruction) ==
    LET source_address ==
            Add64(context.destination, W64(context.bytes_written))
    IN  Sub64(Sub64(instruction.absolute_target_address, source_address),
              W64(instruction.instruction.length))

\* A faulty variant of OutOfRange: the limits themselves count as out of
\* range (<= and >= for < and >).
OutOfRangeInclusive(distance, min, max) ==
    ~SLess(W64(min), distance) \/ ~SLess(distance, W64(max))

OutOfRange(distance, min, max) ==
    SLess(distance, W64(min)) \/ SLess(W64(max), distance)

\* ZyrexShouldRewriteBranchInstruction
ZyrexShouldRewriteBranchInstruction(context, instruction) ==
    LET distance == BranchDistance(context, instruction)
    IN  CASE instruction.instruction.imm_size = 8 ->
                OutOfRange(distance, ZYAN_INT8_MIN, ZYAN_INT8_MAX)
          [] instruction.instruction.imm_size = 16 ->
                OutOfRange(distance, ZYAN_INT16_MIN, ZYAN_INT16_MAX)
          [] instruction.instruction.imm_size = 32 ->
                OutOfRange(distance, ZYAN_INT32_MIN, ZYAN_INT32_MAX)

\* ZyrexRelocateCommonInstruction
ZyrexRelocateCommonInstruction(context, instruction) ==
    LET length == instruction.instruction.length
        copied == Store(context, context.bytes_written,
                        SubSeq(context.buffer, context.bytes_read + 1,
                               context.bytes_read + length))
    IN  ZyrexUpdateTranslationContext(copied, length,
            U8(context.bytes_read), U8(context.bytes_written))

\* The branches for which no form with a 32-bit offset exists.
ShortOnlyMnemonics == {"JCXZ", "JECXZ", "JRCXZ", "LOOP", "LOOPE", "LOOPNE"}

\* A faulty variant of RewriteShortBranch: the operand of the copied branch
\* is left as it was instead of being set to 2.
RewriteShortBranchKeepingOperand(context, instruction) ==
    LET length  == instruction.instruction.length
        address == context.bytes_written
        copied  == Store(context, address,
                         SubSeq(context.buffer, context.bytes_read + 1,
                                context.bytes_read + length))
        first   == ZyrexUpdateTranslationContext(copied, length,
                       U8(copied.bytes_read), U8(copied.bytes_written))
        jump0   == Store(first, address + length, <<235, 5>>)
        second  == ZyrexUpdateTranslationContext(jump0, 2,
                       U8(jump0.bytes_read),
                       U8(jump0.bytes_written) + length)
        jump1   == ZyrexWriteRelativeJump(second, address + length + 2,
                       instruction.absolute_target_address)
    IN  ZyrexUpdateTranslationContext(jump1, 5, U8(jump1.bytes_read),
            U8(jump1.bytes_written) + length + 2)

\* ZyrexRelocateRelativeBranchInstruction, lines 219-241: the rewrite into
\* three instructions.
RewriteShortBranch(context, instruction) ==
    LET length  == instruction.instruction.length
        address == context.bytes_written
        copied  == Store(context, address,
                         SubSeq(context.buffer, context.bytes_read + 1,
                                context.bytes_read + length))
        patched == Store(copied,
                         address + instruction.instruction.imm_offset, <<2>>)
        first   == ZyrexUpdateTranslationContext(patched, length,
                       U8(patched.bytes_read), U8(patched.bytes_written))
        jump0   == Store(first, address + length, <<235, 5>>)
        second  == ZyrexUpdateTranslationContext(jump0, 2,
                       U8(jump0.bytes_read),
                       U8(jump0.bytes_written) + length)
        jump1   == ZyrexWriteRelativeJump(second, address + length + 2,
                       instruction.absolute_target_address)
    IN  ZyrexUpdateTranslationContext(jump1, 5, U8(jump1.bytes_read),
            U8(jump1.bytes_written) + length + 2)

\* A faulty variant of NearOpcode: JNLE gets the opcode of JLE.
NearOpcodeSlip(mnemonic) ==
    CASE mnemonic = "JMP"  -> 233
      [] mnemonic = "JO"   -> 128
      [] mnemonic = "JNO"  -> 129
      [] mnemonic = "JB"   -> 130
      [] mnemonic = "JNB"  -> 131
      [] mnemonic = "JZ"   -> 132
      [] mnemonic = "JNZ"  -> 133
      [] mnemonic = "JBE"  -> 134
      [] mnemonic = "JNBE" -> 135
      [] mnemonic = "JS"   -> 136
      [] mnemonic = "JNS"  -> 137
      [] mnemonic = "JP"   -> 138
      [] mnemonic = "JNP"  -> 139
      [] mnemonic = "JL"   -> 140
      [] mnemonic = "JNL"  -> 141
      [] mnemonic = "JLE"  -> 142
      [] mnemonic = "JNLE" -> 142
      [] OTHER -> 0

\* The second opcode byte of the near form of a conditional branch, and E9
\* for JMP (lines 250-276); 0 stands for the unreachable default.
NearOpcode(mnemonic) ==
    CASE mnemonic = "JMP"  -> 233
      [] mnemonic = "JO"   -> 128
      [] mnemonic = "JNO"  -> 129
      [] mnemonic = "JB"   -> 130
      [] mnemonic = "JNB"  -> 131
      [] mnemonic = "JZ"   -> 132
      [] mnemonic = "JNZ"  -> 133
      [] mnemonic = "JBE"  -> 134
      [] mnemonic = "JNBE" -> 135
      [] mnemonic = "JS"   -> 136
      [] mnemonic = "JNS"  -> 137
      [] mnemonic = "JP"   -> 138
      [] mnemonic = "JNP"  -> 139
      [] mnemonic = "JL"   -> 140
      [] mnemonic = "JNL"  -> 141
      [] mnemonic = "JLE"  -> 142
      [] mnemonic = "JNLE" -> 143
      [] OTHER -> 0

\* ZyrexRelocateRelativeBranchInstruction, lines 247-298: the enlargement
\* to the form with a 32-bit offset.
EnlargeBranch(context, instruction) ==
    LET opcode == NearOpcode(instruction.instruction.mnemonic)
        length == IF opcode = 233 THEN 5 ELSE 6
        start  == context.bytes_written
        opened == IF opcode = 233
                  THEN Store(context, start, <<233>>)
                  ELSE Store(context, start, <<15, opcode>>)
        address == start + (IF opcode = 233 THEN 1 ELSE 2)
        offset == ZyrexCalculateRelativeOffset(4,
                      Add64(context.destination, W64(address)),
                      instruction.absolute_target_address)
    IN  IF opcode = 0
        THEN [context EXCEPT !.status = "UNREACHABLE"]
        ELSE ZyrexUpdateTranslationContext(Store(opened, address, offset),
                 length, U8(context.bytes_read), U8(context.bytes_written))

\* A faulty variant of CopyAndPatch: the address of the field is taken after
\* the copy has advanced bytes_written.
CopyAndPatchPastEnd(context, instruction, field_offset, size) ==
    LET copied == ZyrexRelocateCommonInstruction(context, instruction)
        offset_address == copied.bytes_written + field_offset
        value  == ZyrexCalculateRelativeOffset(0,
                      Add64(copied.destination, W64(copied.bytes_written)),
                      instruction.absolute_target_address)
    IN  IF size \in {8, 16, 32}
        THEN Store(copied, offset_address, Trunc(value, size \div 8))
        ELSE [copied EXCEPT !.status = "UNREACHABLE"]

\* Lines 301-321 and 344-364: copy the instruction, then store the offset
\* from its new end to the target over the field of `size` bits at
\* `field_offset`.
CopyAndPatch(context, instruction, field_offset, size) ==
    LET offset_address == context.bytes_written + field_offset
        copied == ZyrexRelocateCommonInstruction(context, instruction)
        value  == ZyrexCalculateRelativeOffset(0,
                      Add64(copied.destination, W64(copied.bytes_written)),
                      instruction.absolute_target_address)
    IN  IF size \in {8, 16, 32}
        THEN Store(copied, offset_address, Trunc(value, size \div 8))
        ELSE [copied EXCEPT !.status = "UNREACHABLE"]

\* ZyrexRelocateRelativeBranchInstruction
ZyrexRelocateRelativeBranchInstruction(context, instruction) ==
    IF ~instruction.has_external_target
    THEN [ZyrexRelocateCommonInstruction(context, instruction)
             EXCEPT !.strategy = "branch-internal"]
    ELSE IF ZyrexShouldRewriteBranchInstruction(context, instruction)
    THEN IF instruction.instruction.mnemonic \in ShortOnlyMnemonics
         THEN [RewriteShortBranch(context, instruction)
                  EXCEPT !.strategy = "branch-synthesized"]
         ELSE [EnlargeBranch(context, instruction)
                  EXCEPT !.strategy = "branch-enlarged"]
    ELSE [CopyAndPatch(context, instruction,
                       instruction.instruction.imm_offset,
                       instruction.instruction.imm_size)
             EXCEPT !.strategy = "branch-patched"]

\* ZyrexRelocateRelativeMemoryInstruction
ZyrexRelocateRelativeMemoryInstruction(context, instruction) ==
    IF instruction.has_external_target
    THEN [CopyAndPatch(context, instruction,
                       instruction.instruction.disp_offset,
                       instruction.instruction.disp_size)
             EXCEPT !.strategy = "memory-patched"]
    ELSE [ZyrexRelocateCommonInstruction(context, instruction)
             EXCEPT !.strategy = "memory-internal"]

\* ZyrexRelocateRelativeInstruction
ZyrexRelocateRelativeInstruction(context, instruction) ==
    IF ZyrexIsRelativeBranchInstruction(instruction.instruction)
    THEN ZyrexRelocateRelativeBranchInstruction(context, instruction)
    ELSE IF ZyrexIsRelativeMemoryInstruction(instruction.instruction)
    THEN ZyrexRelocateRelativeMemoryInstruction(context, instruction)
    ELSE [context EXCEPT !.status = "UNREACHABLE"]

\* A faulty variant of ZyrexRelocateInstruction: bytes_read advances by the
\* number of bytes written instead of the length of the instruction.
ZyrexRelocateInstructionByWritten(context, instruction) ==
    LET entered == [context EXCEPT !.touched = {}, !.strategy = "none"]
        moved == IF instruction.has_relative_target
                 THEN ZyrexRelocateRelativeInstruction(entered, instruction)
                 ELSE [ZyrexRelocateCommonInstruction(entered, instruction)
                          EXCEPT !.strategy = "common"]
    IN  IF moved.status # "SUCCESS" THEN moved
        ELSE [moved EXCEPT
                 !.bytes_read = @ + moved.bytes_written - context.bytes_written,
                 !.instructions_read = @ + 1]

\* ZyrexRelocateInstruction
ZyrexRelocateInstruction(context, instruction) ==
    LET entered == [context EXCEPT !.touched = {}, !.strategy = "none"]
        moved == IF instruction.has_relative_target
                 THEN ZyrexRelocateRelativeInstruction(entered, instruction)
                 ELSE [ZyrexRelocateCommonInstruction(entered, instruction)
                          EXCEPT !.strategy = "common"]
    IN  IF moved.status # "SUCCESS" THEN moved
        ELSE [moved EXCEPT
                 !.bytes_read = @ + instruction.instruction.length,
                 !.instructions_read = @ + 1]

\* A faulty variant of ZyrexGetRelocatedInstructionOffset: the last item of
\* the map whose offset_source matches is taken.
ZyrexGetRelocatedInstructionOffsetLast(map, offset_source, i) ==
    LET matching == { k \in i..Len(map) : map[k].offset_source = offset_source }
        last     == CHOOSE k \in matching : \A m \in matching : m <= k
    IN  IF matching = {} THEN [status |-> "NOT_FOUND", offset |-> 0]
        ELSE [status |-> "SUCCESS", offset |-> map[last].offset_destination]

\* A faulty variant of ZyrexGetRelocatedInstructionOffset: a source offset
\* the map does not hold is reported as relocated to offset 0.
ZyrexGetRelocatedInstructionOffsetOrZero(map, offset_source, i) ==
    IF \E k \in i..Len(map) : map[k].offset_source = offset_source
    THEN LET first == CHOOSE k \in i..Len(map) :
                          /\ map[k].offset_source = offset_source
                          /\ \A m \in i..(k - 1) :
                                map[m].offset_source # offset_source
         IN  [status |-> "SUCCESS", offset |-> map[first].offset_destination]
    ELSE [status |-> "SUCCESS", offset |-> 0]

\* ZyrexGetRelocatedInstructionOffset: the first item of the map, from
\* index i on, whose offset_source matches.
ZyrexGetRelocatedInstructionOffset(map, offset_source, i) ==
    LET matching == { k \in i..Len(map) : map[k].offset_source = offset_source }
        first    == CHOOSE k \in matching : \A m \in matching : k <= m
    IN  IF matching = {} THEN [status |-> "NOT_FOUND", offset |-> 0]
        ELSE [status |-> "SUCCESS", offset |-> map[first].offset_destination]

\* A faulty variant of UpdateInstructionOffset: the offsets of the
\* instruction and of its target are passed in the wrong order.
UpdateInstructionOffsetSwapped(context, items, instruction) ==
    LET memory_operand ==
            ZyrexIsRelativeMemoryInstruction(instruction.instruction)
        branch ==
            ZyrexIsRelativeBranchInstruction(instruction.instruction)
        offset == IF memory_operand THEN instruction.instruction.disp_offset
                  ELSE IF branch THEN instruction.instruction.imm_offset
                  ELSE 0
        size   == IF memory_operand THEN instruction.instruction.disp_size
                  ELSE IF branch THEN instruction.instruction.imm_size
                  ELSE 0
        offset_instruction ==
            ZyrexGetRelocatedInstructionOffset(context.translation_map,
                U8(instruction.address_offset), 1)
        destination == items[instruction.outgoing + 1]
        offset_destination ==
            ZyrexGetRelocatedInstructionOffset(context.translation_map,
                U8(destination.address_offset), 1)
        value == ZyrexCalculateRelativeOffset(
                     instruction.instruction.length,
                     W64(offset_destination.offset),
                     W64(offset_instruction.offset))
    IN  IF offset_instruction.status # "SUCCESS"
        THEN [context EXCEPT !.status = offset_instruction.status]
        ELSE IF offset_destination.status # "SUCCESS"
        THEN [context EXCEPT !.status = offset_destination.status]
        ELSE IF size \notin {8, 16, 32}
        THEN [context EXCEPT !.status = "UNREACHABLE"]
        ELSE Store(context, offset_instruction.offset + offset,
                   Trunc(value, size \div 8))

\* A faulty variant of UpdateInstructionOffset: the value is stored at the
\* start of the relocated instruction, not at its operand field.
UpdateInstructionOffsetAtStart(context, items, instruction) ==
    LET memory_operand ==
            ZyrexIsRelativeMemoryInstruction(instruction.instruction)
        branch ==
            ZyrexIsRelativeBranchInstruction(instruction.instruction)
        offset == IF memory_operand THEN instruction.instruction.disp_offset
                  ELSE IF branch THEN instruction.instruction.imm_offset
                  ELSE 0
        size   == IF memory_operand THEN instruction.instruction.disp_size
                  ELSE IF branch THEN instruction.instruction.imm_size
                  ELSE 0
        offset_instruction ==
            ZyrexGetRelocatedInstructionOffset(context.translation_map,
                U8(instruction.address_offset), 1)
        destination == items[instruction.outgoing + 1]
        offset_destination ==
            ZyrexGetRelocatedInstructionOffset(context.translation_map,
                U8(destination.address_offset), 1)
        value == ZyrexCalculateRelativeOffset(
                     instruction.instruction.length,
                     W64(offset_instruction.offset),
                     W64(offset_destination.offset))
    IN  IF offset_instruction.status # "SUCCESS"
        THEN [context EXCEPT !.status = offset_instruction.status]
        ELSE IF offset_destination.status # "SUCCESS"
        THEN [context EXCEPT !.status = offset_destination.status]
        ELSE IF size \notin {8, 16, 32}
        THEN [context EXCEPT !.status = "UNREACHABLE"]
        ELSE Store(context, offset_instruction.offset,
                   Trunc(value, size \div 8))

\* ZyrexUpdateInstructionsOffsets, body of the loop for one instruction
\* with an internal target.
UpdateInstructionOffset(context, items, instruction) ==
    LET memory_operand ==
            ZyrexIsRelativeMemoryInstruction(instruction.instruction)
        branch ==
            ZyrexIsRelativeBranchInstruction(instruction.instruction)
        offset == IF memory_operand THEN instruction.instruction.disp_offset
                  ELSE IF branch THEN instruction.instruction.imm_offset
                  ELSE 0
        size   == IF memory_operand THEN instruction.instruction.disp_size
                  ELSE IF branch THEN instruction.instruction.imm_size
                  ELSE 0
        offset_instruction ==
            ZyrexGetRelocatedInstructionOffset(context.translation_map,
                U8(instruction.address_offset), 1)
        destination == items[instruction.outgoing + 1]
        offset_destination ==
            ZyrexGetRelocatedInstructionOffset(context.translation_map,
                U8(destination.address_offset), 1)
        value == ZyrexCalculateRelativeOffset(
                     instruction.instruction.length,
                     W64(offset_instruction.offset),
                     W64(offset_destination.offset))
    IN  IF offset_instruction.status # "SUCCESS"
        THEN [context EXCEPT !.status = offset_instruction.status]
        ELSE IF offset_destination.status # "SUCCESS"
        THEN [context EXCEPT !.status = offset_destination.status]
        ELSE IF size \notin {8, 16, 32}
        THEN [context EXCEPT !.status = "UNREACHABLE"]
        ELSE Store(context, offset_instruction.offset + offset,
                   Trunc(value, size \div 8))

\* The loop of ZyrexUpdateInstructionsOffsets for i = lo..hi (run as its two
\* halves in order); a failed ZYAN_CHECK has returned.
RECURSIVE UpdateLoop(_, _, _, _)
UpdateLoop(context, items, lo, hi) ==
    IF lo > hi THEN context
    ELSE IF lo = hi
    THEN IF \/ context.status # "SUCCESS"
            \/ ~items[lo].has_relative_target
            \/ items[lo].has_external_target
         THEN context
         ELSE UpdateInstructionOffset(context, items, items[lo])
    ELSE CHOOSE done \in
             { UpdateLoop(half, items, (lo + hi) \div 2 + 1, hi) :
                 half \in { UpdateLoop(context, items, lo,
                                       (lo + hi) \div 2) } } : TRUE

\* ZyrexUpdateInstructionsOffsets
ZyrexUpdateInstructionsOffsets(context, items) ==
    UpdateLoop([context EXCEPT !.touched = {}], items, 1, Len(items))

(***************************************************************************)
(* Inputs: source buffers assembled from instructions, and the addresses   *)
(* of the two buffers.                                                     *)
(***************************************************************************)

\* The longest instruction sequence of the exhaustively enumerated buffers.
MaxInsns == 2

Rel8(opcode, rel)  == <<opcode>> \o LE(rel, 1)
Rel32(opcode, rel) == <<opcode>> \o LE(rel, 4)
Nop == <<144>>
Ret == <<195>>
MovImm == <<184, 0, 0, 0, 0>>                      \* MOV EAX, 0

RECURSIVE Flatten(_)
Flatten(parts) ==
    IF parts = <<>> THEN <<>> ELSE Head(parts) \o Flatten(Tail(parts))

Repeat(part, n) ==
    [k \in 1..(n * Len(part)) |-> part[((k - 1) % Len(part)) + 1]]

\* Every buffer made of 1..n instructions of `menu`.
Buffers(menu, n) ==
    UNION {{Flatten(p) : p \in [1..k -> menu]} : k \in 1..n}

\* Instructions of the enumerated 64-bit buffers.
Menu64 ==
    { Nop,
      MovImm,
      Rel8(235, 80),                               \* JMP  +0x50
      Rel8(235, 0),                                \* JMP  +0 (next)
      Rel8(235, -2),                               \* JMP  to itself
      Rel8(235, 1),                                \* JMP  +1
      Rel8(116, 80),                               \* JZ   +0x50
      Rel8(227, 100),                              \* JRCXZ +0x64
      <<103>> \o Rel8(227, 100),                   \* JECXZ +0x64
      Rel8(226, -3),                               \* LOOP -3
      Rel32(233, 4096),                            \* JMP  +0x1000
      Rel32(232, 0),                               \* CALL +0
      <<72, 139, 5, 16, 0, 0, 0>>,                 \* MOV RAX, [RIP+0x10]
      <<139, 5, 0, 0, 0, 0>> }                     \* MOV EAX, [RIP+0]

\* Instructions of the enumerated 32-bit buffers.
Menu32 ==
    { Nop,
      <<72>>,                                      \* DEC EAX
      Rel8(235, 80),                               \* JMP  +0x50
      Rel8(227, 0),                                \* JECXZ +0 (next)
      <<102, 233>> \o LE(4096, 2),                 \* JMP  +0x1000 (rel16)
      <<102, 15, 133>> \o LE(-4, 2),               \* JNZ  -4 (rel16)
      <<139, 5, 0, 16, 64, 0>> }                   \* MOV EAX, [0x401000]

\* Branch opcodes with an 8-bit offset.
ShortBranches ==
    {<<op>> : op \in {235} \cup (112..127) \cup (224..227)} \cup {<<103, 227>>}
\* Branch opcodes with a 32-bit offset, and their 16-bit forms (66 prefix).
NearBranches == {<<233>>} \cup {<<15, op>> : op \in 128..143}

\* Buffers holding one branch whose offset is the least or the greatest of
\* its width.
EdgeBuffers8  == {op \o LE(rel, 1) : op \in ShortBranches, rel \in {-128, 127}}
EdgeBuffers16 ==
    {<<102>> \o op \o LE(rel, 2) : op \in NearBranches, rel \in {-32768, 32767}}
EdgeBuffers32 ==
    {op \o LE(rel, 4) : op \in NearBranches,
                        rel \in {ZYAN_INT32_MIN, ZYAN_INT32_MAX}}

\* Buffers named for the cases they hold.
ForwardOverEnlarged ==                             \* JMP +2 | JMP +0x50 | NOP
    Rel8(235, 2) \o Rel8(235, 80) \o Nop
BackwardOverRewritten ==                           \* NOP | JRCXZ +0x64 | JMP -5
    Nop \o Rel8(227, 100) \o Rel8(235, -5)
ForwardShortJump ==                                \* JMP +1 | NOP | NOP | RET
    Rel8(235, 1) \o Nop \o Nop \o Ret
FiveNops == Repeat(Nop, 5)
\* JMP +127 over 125 bytes of MOV and an external JMP, to a NOP.
LongForwardJump ==
    Rel8(235, 127) \o Repeat(MovImm, 25) \o Rel8(235, 80) \o Nop
\* 260 bytes of MOV, then JMP +0 to a NOP: a chunk larger than 256 bytes.
LargeChunk == Repeat(MovImm, 52) \o Rel8(235, 0) \o Nop

\* 253 bytes of MOV and NOP, then JMP +0 to a NOP at offset 255: a chunk of
\* exactly 256 bytes.
FullChunk == Repeat(MovImm, 50) \o Repeat(Nop, 3) \o Rel8(235, 0) \o Nop

\* JMP near to the last of 255 NOPs, the instruction of index 255; and to
\* the last of 256 NOPs, the instruction of index 256.
TargetIndex255 == Rel32(233, 254) \o Repeat(Nop, 255)
TargetIndex256 == Rel32(233, 255) \o Repeat(Nop, 256)
ManyInstructions == { TargetIndex255, TargetIndex256 }

\* JMP +0 | 50 MOV | 4 NOP | JMP +0 | NOP: the second JMP and its target lie
\* at the offsets 256 and 258, which are 0 and 2 in eight bits, the offsets
\* of the first JMP and the first MOV.
AliasedChunk ==
    Rel8(235, 0) \o Repeat(MovImm, 50) \o Repeat(Nop, 4) \o Rel8(235, 0) \o Nop

\* The same with JRCXZ +0x64 for the last NOP: the target of the second JMP
\* has an external target of its own and is rewritten when it lands far away.
AliasedRewritten ==
    Rel8(235, 0) \o Repeat(MovImm, 50) \o Repeat(Nop, 4) \o Rel8(235, 0)
        \o Rel8(227, 100)

\* Three short JMPs to the one NOP behind them: the incoming vector of the
\* NOP grows past the two ids it was initialized for.
ThreeToOne == Rel8(235, 4) \o Rel8(235, 2) \o Rel8(235, 0) \o Nop

NamedBuffers ==
    { ForwardOverEnlarged, BackwardOverRewritten, ForwardShortJump, FiveNops,
      LongForwardJump, LargeChunk, FullChunk, AliasedChunk, AliasedRewritten }

\* Where the source buffer lies.
SourceAddress(mode) ==
    IF mode = 64 THEN <<0, 16, 0, 64, 1, 0, 0, 0>>     \* 0x0000000140001000
    ELSE <<0, 16, 64, 0, 0, 0, 0, 0>>                  \* 0x00401000

\* Distances from the source to the destination buffer.
Near == W64(64)
Medium == W64(65536)
Far == <<0, 0, 0, 0, 2, 0, 0, 0>>                      \* 2^33
Edges8 == {W64(255), W64(256), W64(-255), W64(-256)}
Edges16 == {W64(65535), W64(65536), W64(-65535), W64(-65536)}
Edges32 ==
    { <<255, 255, 255, 255, 0, 0, 0, 0>>,  <<0, 0, 0, 0, 1, 0, 0, 0>>,
      <<1, 0, 0, 0, 255, 255, 255, 255>>,  <<0, 0, 0, 0, 255, 255, 255, 255>> }

\* The destination buffer the caller supplies is large enough for every
\* rewriting (no instruction grows to five times its length).
DestinationSize(buf) == 5 * Len(buf)

Scenario(m, buf, delta, n) ==
    [mode |-> m, buffer |-> buf,
     destination |-> Add64(SourceAddress(m), delta), bytes_to_analyze |-> n,
     fail_at |-> 0]

\* The scenarios of `buffers` in which analysis is asked for one byte, for
\* the buffer less its last byte, for the whole buffer, and for one byte
\* more than the buffer holds (bytes_to_analyze is never 0).
Sized(m, buffers, deltas) ==
    UNION {{Scenario(m, buf, delta, n) :
               delta \in deltas,
               n \in {1, Len(buf) - 1, Len(buf), Len(buf) + 1} \ {0}} :
           buf \in buffers}

\* The scenarios of `buffers` in which the whole buffer is analyzed.
Whole(m, buffers, deltas) ==
    UNION {{Scenario(m, buf, delta, Len(buf)) : delta \in deltas} :
           buf \in buffers}

\* The allocating calls of an analysis that are made to fail.
MaxFailAt == 7

\* The scenarios of `buffers` in which the whole buffer is analyzed and one
\* of the allocating calls of the analysis fails.
OutOfMemory(m, buffers, delta) ==
    {[Scenario(m, buf, delta, Len(buf)) EXCEPT !.fail_at = k] :
        buf \in buffers, k \in 1..MaxFailAt}

Scenarios ==
    Sized(64, Buffers(Menu64, MaxInsns), {Near, Medium, Far})
    \cup Sized(32, Buffers(Menu32, MaxInsns), {Near, Medium})
    \cup Whole(64, EdgeBuffers8, Edges8)
    \cup Whole(32, EdgeBuffers8, Edges8)
    \cup Whole(32, EdgeBuffers16, Edges16)
    \cup Whole(64, EdgeBuffers32, Edges32)
    \cup Whole(64, NamedBuffers, {Medium, Far})
    \cup Whole(64, ManyInstructions, {Near})
    \cup Whole(64, {ThreeToOne}, {Near, Far})
    \cup OutOfMemory(64, {ForwardShortJump, BackwardOverRewritten, ThreeToOne},
                      Near)

(***************************************************************************)
(* The state machine: analysis, then one ZyrexRelocateInstruction per      *)
(* analyzed instruction in order, and ZyrexUpdateInstructionsOffsets.      *)
(***************************************************************************)

VARIABLES
    mode,                 \* machine mode of the build
    buffer,               \* bytes of the source buffer
    source,               \* address of the source buffer
    destination,          \* address of the destination buffer
    bytes_to_analyze,     \* argument of ZyrexAnalyzeInstructions
    fail_at,              \* which allocating call of the analysis fails
    pc,                   \* "start", "relocating", "updated", "failed",
                          \* "destroyed" or "crashed"
    status,               \* status returned by the last call
    instructions,         \* the analyzed instructions
    analysis_bytes_read,  \* *bytes_read of ZyrexAnalyzeInstructions
    memory,               \* bytes of the destination buffer
    bytes_read,           \* context->bytes_read
    bytes_written,        \* context->bytes_written
    instructions_read,    \* context->instructions_read
    translation_map,      \* context->translation_map
    touched,              \* destination offsets the last call stored to
    destroyed,            \* the instructions whose incoming vector
                          \* ZyanVectorDestroy was called on
    placed                \* per successful ZyrexRelocateInstruction call:
                          \* bytes_read, bytes_written and the length of
                          \* the map on entry, and the strategy the call
                          \* ended in

vars ==
    << mode, buffer, source, destination, bytes_to_analyze, pc, status,
       instructions, analysis_bytes_read, memory, bytes_read, bytes_written,
       instructions_read, translation_map, touched, placed, fail_at,
       destroyed >>

inputs == << mode, buffer, source, destination, bytes_to_analyze, fail_at >>

Init ==
    /\ \E s \in Scenarios :
          /\ mode = s.mode
          /\ buffer = s.buffer
          /\ source = SourceAddress(s.mode)
          /\ destination = s.destination
          /\ bytes_to_analyze = s.bytes_to_analyze
          /\ fail_at = s.fail_at
          \* the destination starts filled with CC bytes
          /\ memory = [k \in 1..DestinationSize(s.buffer) |-> 204]
    /\ pc = "start"
    /\ status = "SUCCESS"
    /\ instructions = <<>>
    /\ analysis_bytes_read = 0
    /\ bytes_read = 0
    /\ bytes_written = 0
    /\ instructions_read = 0
    /\ translation_map = <<>>
    /\ touched = {}
    /\ placed = <<>>
    /\ destroyed = {}

\* The translation context as the functions of Relocation.c take it.
Context ==
    [ source |-> source, destination |-> destination, buffer |-> buffer,
      memory |-> memory, bytes_read |-> bytes_read,
      bytes_written |-> bytes_written,
      instructions_read |-> instructions_read,
      translation_map |-> translation_map, touched |-> touched,
      strategy |-> "none", status |-> "SUCCESS" ]

\* The context after a call, and where the caller goes on its status.
Returned(context, next) ==
    /\ memory' = context.memory
    /\ bytes_read' = context.bytes_read
    /\ bytes_written' = context.bytes_written
    /\ instructions_read' = context.instructions_read
    /\ translation_map' = context.translation_map
    /\ touched' = context.touched
    /\ status' = context.status
    /\ pc' = IF context.status = "SUCCESS" THEN next ELSE "failed"

\* The caller analyzes the source buffer and sets up the context.
Analyze ==
    /\ pc = "start"
    /\ \E result \in { ZyrexAnalyzeInstructions(mode, buffer, source,
                                                 bytes_to_analyze, fail_at) } :
           /\ status' = result.status
           /\ instructions' = result.instructions
           /\ analysis_bytes_read' =
                 IF result.bytes_read_set THEN result.bytes_read
                 ELSE analysis_bytes_read
           /\ pc' = IF result.status = "SUCCESS" THEN "relocating"
                    ELSE "failed"
    /\ UNCHANGED << inputs, memory, bytes_read, bytes_written,
                    instructions_read, translation_map, touched, placed,
                    destroyed >>

\* The caller relocates the next analyzed instruction.
Relocate ==
    /\ pc \in {"relocating", "updated"}
    /\ instructions_read < Len(instructions)
    /\ \E context \in { ZyrexRelocateInstruction(Context,
                               instructions[instructions_read + 1]) } :
           /\ Returned(context, "relocating")
           /\ placed' = IF context.status = "SUCCESS"
                        THEN Append(placed,
                                 [read |-> bytes_read,
                                  offset |-> bytes_written,
                                  mapped |-> Len(translation_map),
                                  strategy |-> context.strategy])
                        ELSE placed
    /\ UNCHANGED << inputs, instructions, analysis_bytes_read, destroyed >>

\* The caller runs the fix-up pass.
UpdateOffsets ==
    /\ pc \in {"relocating", "updated"}
    /\ \E context \in { ZyrexUpdateInstructionsOffsets(Context,
                                                        instructions) } :
           Returned(context, "updated")
    /\ UNCHANGED << inputs, instructions, analysis_bytes_read, placed,
                    destroyed >>

\* ZyrexAnalyzedInstructionDestroy on every element of `items`: the elements
\* ZyanVectorDestroy(&item->incoming) is called on.
ZyrexAnalyzedInstructionDestroy(items) ==
    { k \in 1..Len(items) : items[k].is_internal_target }

\* The caller destroys the vector of analyzed instructions, once
\* ZyrexAnalyzeInstructions has initialized it; the vector destroys its
\* elements.  Destroying an incoming vector that was never initialized
\* works on the indeterminate bytes of the local item it was copied from:
\* the call may come back or crash.
Destroy ==
    /\ pc \in {"relocating", "updated", "failed"}
    /\ ~(status = "OUT_OF_MEMORY" /\ fail_at = 1)
    /\ destroyed' = ZyrexAnalyzedInstructionDestroy(instructions)
    /\ \E outcome \in {"destroyed", "crashed"} :
          /\ outcome = "crashed" =>
                \E k \in destroyed' : ~instructions[k].incoming.init
          /\ pc' = outcome
    /\ UNCHANGED << inputs, status, instructions, analysis_bytes_read, memory,
                    bytes_read, bytes_written, instructions_read,
                    translation_map, touched, placed >>

Next == Analyze \/ Relocate \/ UpdateOffsets \/ Destroy

Spec == Init /\ [][Next]_vars

(***************************************************************************)
(* Properties                                                              *)
(***************************************************************************)

\* ZyrexAnalyzeInstructions returned success.
AnalysisSucceeded ==
    pc # "start" /\ status \notin {"DECODE_FAILED", "OUT_OF_MEMORY"}

\* Every analyzed instruction has been relocated, in order.
AllRelocated ==
    AnalysisSucceeded /\ instructions_read = Len(instructions)

\* ... and ZyrexUpdateInstructionsOffsets has then succeeded.
FixedUp == AllRelocated /\ pc = "updated"

\* The sum of the lengths of the analyzed instructions lo..hi, and of the
\* first k.
RECURSIVE SumRange(_, _, _)
SumRange(items, lo, hi) ==
    IF lo > hi THEN 0
    ELSE IF lo = hi THEN items[lo].instruction.length
    ELSE SumRange(items, lo, (lo + hi) \div 2)
           + SumRange(items, (lo + hi) \div 2 + 1, hi)
SumLengths(items, k) == SumRange(items, 1, k)

\* Instruction i has a relative target inside the analyzed chunk.
Internal(i) ==
    instructions[i].has_relative_target
        /\ ~instructions[i].has_external_target

\* The analyzed instruction that begins at the relative target of i.
TargetOf(i) ==
    CHOOSE j \in 1..Len(instructions) :
        instructions[j].address = instructions[i].absolute_target_address

\* Offset and width in bytes of the field that holds the relative operand:
\* the immediate of a branch, the displacement of a memory operand.
FieldOffset(i) ==
    IF instructions[i].instruction.imm_is_relative
    THEN instructions[i].instruction.imm_offset
    ELSE instructions[i].instruction.disp_offset
FieldBytes(i) ==
    (IF instructions[i].instruction.imm_is_relative
     THEN instructions[i].instruction.imm_size
     ELSE instructions[i].instruction.disp_size) \div 8

\* The k bytes of the destination buffer at `offset`.
Emitted(offset, k) == SubSeq(memory, offset + 1, offset + k)

\* The destination offset one past the bytes emitted for instruction i.
EmittedEnd(i) ==
    IF i < Len(placed) THEN placed[i + 1].offset ELSE bytes_written

(* C1: after analysis, relocation of every instruction in order and the
   fix-up pass, the patched field of every instruction with an internal
   target, read as a signed integer of its width, is the destination offset
   of its target minus its own destination offset minus its length. *)
C1_InternalTargetsResolved ==
    FixedUp =>
        \A i \in 1..Len(instructions) :
            Internal(i) =>
                SExt(Emitted(placed[i].offset + FieldOffset(i), FieldBytes(i)))
                  = W64(placed[TargetOf(i)].offset - placed[i].offset
                          - instructions[i].instruction.length)

(* C4: after a successful analysis the lengths of the analyzed instructions
   sum to *bytes_read, each address_offset is the sum of the lengths before
   it, and *bytes_read is at least bytes_to_analyze. *)
C4_AnalysisAccounting ==
    AnalysisSucceeded =>
        /\ SumLengths(instructions, Len(instructions)) = analysis_bytes_read
        /\ \A k \in 1..Len(instructions) :
              instructions[k].address_offset = SumLengths(instructions, k - 1)
        /\ analysis_bytes_read >= bytes_to_analyze

\* Two instructions were analyzed and the second one crosses the minimum.
C4_Witness ==
    /\ AnalysisSucceeded
    /\ Len(instructions) = 2
    /\ analysis_bytes_read > bytes_to_analyze

\* The address of the destination buffer's byte at `offset`.
AddressAt(offset) == Add64(destination, W64(offset))

\* Instruction i is a relative branch, or an instruction with a RIP-relative
\* memory operand, whose target lies outside the analyzed chunk.
ExternalBranch(i) ==
    /\ instructions[i].has_external_target
    /\ ZyrexIsRelativeBranchInstruction(instructions[i].instruction)
ExternalMemory(i) ==
    /\ instructions[i].has_external_target
    /\ ZyrexIsRelativeMemoryInstruction(instructions[i].instruction)

\* A byte read as a signed 8-bit integer.
SByte(v) == IF v >= 128 THEN v - 256 ELSE v

\* Where the processor lands when it takes the branch found at destination
\* offset `at`, whose relative operand is the last `k` bytes of its `len`
\* bytes.
LandingOf(at, len, k) ==
    Add64(AddressAt(at + len), SExt(Emitted(at + len - k, k)))

\* Where control arrives when the relocated form of branch i is taken: the
\* patched or enlarged branch itself, or the JMP that the synthesized short
\* branch reaches.
BranchLanding(i) ==
    LET b == placed[i].offset
        L == instructions[i].instruction.length
    IN  IF placed[i].strategy = "branch-synthesized"
        THEN LandingOf(b + L + SByte(memory[b + L]), 5, 4)
        ELSE IF placed[i].strategy = "branch-enlarged"
        THEN LandingOf(b, EmittedEnd(i) - b, 4)
        ELSE LandingOf(b, L, FieldBytes(i))

(* C2: for a relative branch whose target is outside the analyzed chunk,
   whatever the source and destination addresses and whatever the width of
   the original operand, the relocated form transfers control to the
   absolute address the original branch targeted. *)
C2_ExternalBranchTargetKept ==
    pc = "relocating" =>
        \A i \in 1..Len(placed) :
            ExternalBranch(i) =>
                BranchLanding(i) = instructions[i].absolute_target_address

(* C3: for an instruction with a RIP-relative memory operand whose target is
   outside the analyzed chunk, whatever the distance between source and
   destination, the relocated copy has the original length, its
   displacement makes the operand resolve to the absolute address the
   original referenced, and its other bytes are those of the original. *)
C3_ExternalMemoryTargetKept ==
    pc = "relocating" =>
        \A i \in 1..Len(placed) :
            ExternalMemory(i) =>
                LET b == placed[i].offset
                    s == instructions[i].address_offset
                    L == instructions[i].instruction.length
                    field == FieldOffset(i) .. FieldOffset(i) + FieldBytes(i) - 1
                IN  /\ EmittedEnd(i) = b + L
                    /\ LandingOf(b, L, FieldBytes(i))
                         = instructions[i].absolute_target_address
                    /\ \A k \in (0 .. L - 1) \ field :
                          memory[b + k + 1] = buffer[s + k + 1]

\* The distance from the end of instruction i, placed where its relocation
\* began, to its target; and whether a 64-bit distance is a signed integer
\* of k bytes.
Distance(i) ==
    Sub64(Sub64(instructions[i].absolute_target_address,
                AddressAt(placed[i].offset)),
          W64(instructions[i].instruction.length))
Fits(distance, k) == SExt(Trunc(distance, k)) = distance

\* Branch i has an external target that its operand cannot reach from the
\* destination.
MustRewrite(i) ==
    ExternalBranch(i) /\ ~Fits(Distance(i), FieldBytes(i))

\* Branch i has no form with a wider operand.
Unenlargeable(i) ==
    instructions[i].instruction.mnemonic
        \in {"JCXZ", "JECXZ", "JRCXZ", "LOOP", "LOOPE", "LOOPNE"}

\* The source bytes of instruction i.
SourceBytes(i) ==
    SubSeq(buffer, instructions[i].address_offset + 1,
           instructions[i].address_offset + instructions[i].instruction.length)

\* The translation-map items appended by the relocation of instruction i.
ItemsOf(i) ==
    SubSeq(translation_map, placed[i].mapped + 1,
           IF i < Len(placed) THEN placed[i + 1].mapped
           ELSE Len(translation_map))

\* The low 32 bits of target - (address of destination offset `end`).
Disp32(i, end) ==
    Trunc(Sub64(instructions[i].absolute_target_address, AddressAt(end)), 4)

(* C5: an unenlargeable branch with an external target out of reach of its
   8-bit operand is relocated as exactly length + 7 bytes: the original
   bytes with the immediate replaced by 02, then EB 05, then E9 and the
   32-bit displacement target - (address of E9 + 5); bytes_written advances
   by length + 7 and three items are appended to the map, each with the
   instruction's source offset (as the map's 8-bit field holds it). *)
C5_SynthesizedSequence ==
    pc = "relocating" =>
        \A i \in 1..Len(placed) :
            (MustRewrite(i) /\ Unenlargeable(i)) =>
                LET b == placed[i].offset
                    L == instructions[i].instruction.length
                IN  /\ Emitted(b, L + 7)
                         = [SourceBytes(i) EXCEPT ![FieldOffset(i) + 1] = 2]
                             \o <<235, 5, 233>> \o Disp32(i, b + L + 7)
                    /\ EmittedEnd(i) = b + L + 7
                    /\ i = Len(placed) => touched = b .. (b + L + 6)
                    /\ Len(ItemsOf(i)) = 3
                    /\ \A k \in 1..3 :
                          ItemsOf(i)[k].offset_source
                            = instructions[i].address_offset % 256

\* A short-only branch with an address-size prefix (three bytes) has just
\* been rewritten.
C5_Witness ==
    /\ pc = "relocating"
    /\ placed # <<>>
    /\ MustRewrite(Len(placed))
    /\ Unenlargeable(Len(placed))
    /\ instructions[Len(placed)].instruction.length = 3
    /\ Emitted(bytes_written - 7, 3) = <<235, 5, 233>>

\* The condition code of a conditional branch: JO = 0 ... JNLE = 15.
ConditionCode(mnemonic) ==
    CHOOSE c \in 0..15 : JccMnemonics[c + 1] = mnemonic

\* bytes_read after the relocation of instruction i.
ReadEnd(i) == IF i < Len(placed) THEN placed[i + 1].read ELSE bytes_read

(* C6: an enlargeable branch with an external target that must be rewritten
   is relocated as E9 + disp32 (5 bytes) for JMP and as 0F, 80 + condition
   code, disp32 (6 bytes) for Jcc, with disp32 = target - (address of
   disp32 + 4); one item (bytes_read, bytes_written), as the map's 8-bit
   fields hold them, is appended; bytes_written advances by 5 or 6 and
   bytes_read by the original length. *)
C6_EnlargedBranch ==
    pc = "relocating" =>
        \A i \in 1..Len(placed) :
            (MustRewrite(i) /\ ~Unenlargeable(i)) =>
                LET b == placed[i].offset
                    mnemonic == instructions[i].instruction.mnemonic
                    opcode == IF mnemonic = "JMP" THEN <<233>>
                              ELSE <<15, 128 + ConditionCode(mnemonic)>>
                    n == Len(opcode) + 4
                IN  /\ Emitted(b, n) = opcode \o Disp32(i, b + n)
                    /\ EmittedEnd(i) = b + n
                    /\ i = Len(placed) => touched = b .. (b + n - 1)
                    /\ ItemsOf(i) =
                         << [offset_source      |-> placed[i].read % 256,
                             offset_destination |-> b % 256] >>
                    /\ ReadEnd(i)
                         = placed[i].read + instructions[i].instruction.length

\* A two-byte JNLE has just been enlarged to six bytes.
C6_Witness ==
    /\ pc = "relocating"
    /\ placed # <<>>
    /\ MustRewrite(Len(placed))
    /\ instructions[Len(placed)].instruction.mnemonic = "JNLE"
    /\ instructions[Len(placed)].instruction.length = 2
    /\ Emitted(bytes_written - 6, 2) = <<15, 143>>

\* How the bytes emitted for instruction i encode it.
KeptEncoding(i) ==
    /\ EmittedEnd(i) = placed[i].offset + instructions[i].instruction.length
    /\ \A k \in 0 .. (instructions[i].instruction.length - 1) :
          (k < FieldOffset(i) \/ k >= FieldOffset(i) + FieldBytes(i)) =>
              memory[placed[i].offset + k + 1] = SourceBytes(i)[k + 1]
SynthesisPath(i) ==
    /\ EmittedEnd(i) = placed[i].offset + instructions[i].instruction.length + 7
    /\ Len(ItemsOf(i)) = 3
EnlargementPath(i) ==
    /\ Len(ItemsOf(i)) = 1
    /\ IF instructions[i].instruction.mnemonic = "JMP"
       THEN /\ EmittedEnd(i) = placed[i].offset + 5
            /\ Emitted(placed[i].offset, 1) = <<233>>
       ELSE /\ EmittedEnd(i) = placed[i].offset + 6
            /\ Emitted(placed[i].offset, 1) = <<15>>

(* C7: a branch with an external target and an operand of w bits is
   rewritten if and only if the distance from its new end to the target is
   below INT_w_MIN or above INT_w_MAX (a distance of exactly INT_w_MIN or
   INT_w_MAX keeps the encoding, only the operand being patched); a
   rewritten branch is synthesized if and only if its mnemonic is JCXZ,
   JECXZ, JRCXZ, LOOP, LOOPE or LOOPNE, and enlarged otherwise. *)
C7_RewriteDecision ==
    pc = "relocating" =>
        \A i \in 1..Len(placed) :
            ExternalBranch(i) =>
                LET w == instructions[i].instruction.imm_size
                    lo == CASE w = 8 -> W64(-128) [] w = 16 -> W64(-32768)
                            [] OTHER -> <<0, 0, 0, 128, 255, 255, 255, 255>>
                    hi == CASE w = 8 -> W64(127) [] w = 16 -> W64(32767)
                            [] OTHER -> <<255, 255, 255, 127, 0, 0, 0, 0>>
                    rewrite == SLess(Distance(i), lo) \/ SLess(hi, Distance(i))
                IN  /\ ~rewrite =>
                          /\ placed[i].strategy = "branch-patched"
                          /\ KeptEncoding(i)
                    /\ (rewrite /\ Unenlargeable(i)) =>
                          /\ placed[i].strategy = "branch-synthesized"
                          /\ SynthesisPath(i)
                    /\ (rewrite /\ ~Unenlargeable(i)) =>
                          /\ placed[i].strategy = "branch-enlarged"
                          /\ EnlargementPath(i)

\* The distance is exactly INT8_MAX and the short branch kept its encoding.
C7_Witness ==
    /\ pc = "relocating"
    /\ placed # <<>>
    /\ ExternalBranch(Len(placed))
    /\ instructions[Len(placed)].instruction.imm_size = 8
    /\ Distance(Len(placed)) = W64(127)
    /\ placed[Len(placed)].strategy = "branch-patched"
    /\ bytes_written - placed[Len(placed)].offset = 2

\* The destination offset at which the k-th instruction emitted for
\* instruction i starts: the instruction itself, then, in a synthesized
\* sequence, the JMP over the far jump and the far jump.
EmittedStart(i, k) ==
    placed[i].offset
      + (CASE k = 1 -> 0
           [] k = 2 -> instructions[i].instruction.length
           [] OTHER -> instructions[i].instruction.length + 2)

(* C8: after any sequence of ZyrexRelocateInstruction calls every map item
   (s, d) has for s the source offset of the instruction relocated and for
   d the destination offset at which the emitted instruction starts (both
   as the map's 8-bit fields hold them); the three items of a synthesized
   sequence that starts at b for an instruction of length L have
   destination offsets b, b + L and b + L + 2. *)
C8_MapItemsExact ==
    pc \in {"relocating", "updated"} =>
        \A i \in 1..Len(placed) :
            \A k \in 1..Len(ItemsOf(i)) :
                /\ ItemsOf(i)[k].offset_source
                     = instructions[i].address_offset % 256
                /\ ItemsOf(i)[k].offset_destination
                     = EmittedStart(i, k) % 256

\* No analyzed instruction has a relative target outside the chunk.
NoExternalTarget ==
    \A i \in 1..Len(instructions) : ~instructions[i].has_external_target

\* The destination holds the source bytes, as many were written as read, and
\* the map pairs every instruction's source offset with itself.
IdentityRelocation ==
    /\ Emitted(0, bytes_read) = SubSeq(buffer, 1, bytes_read)
    /\ bytes_written = bytes_read
    /\ translation_map =
         [k \in 1..Len(instructions) |->
             [offset_source      |-> instructions[k].address_offset,
              offset_destination |-> instructions[k].address_offset]]

(* C9 as stated: for any analyzed chunk without external relative targets,
   relocating every instruction in order and running the fix-up pass leaves
   the destination equal to the source byte for byte, bytes_written equal
   to bytes_read, and the map equal to the identity pairs. *)
C9_IdentityRoundTrip ==
    (FixedUp /\ NoExternalTarget) => IdentityRelocation

(* C9 amended: the same, for an analyzed chunk of at most 256 bytes. *)
C9_IdentityRoundTripSmall ==
    (FixedUp /\ NoExternalTarget /\ analysis_bytes_read <= 256)
        => IdentityRelocation

\* A chunk with a branch to one of its own instructions went through
\* relocation and fix-up.
C9_Witness ==
    /\ FixedUp
    /\ NoExternalTarget
    /\ analysis_bytes_read <= 256
    /\ \E i \in 1..Len(instructions) : Internal(i) /\ TargetOf(i) > i

(* C10: every successful ZyrexRelocateInstruction call advances bytes_read
   by the length of the instruction, instructions_read by one and
   bytes_written by the number of bytes it stored into the destination,
   which begin at the former bytes_written; once every analyzed instruction
   is relocated, bytes_read is the analyzer's bytes_read and
   instructions_read the number of analyzed instructions. *)
C10_CountersAdvance ==
    pc = "relocating" =>
        /\ instructions_read = Len(placed)
        /\ \A i \in 1..Len(placed) :
              /\ placed[i].read = instructions[i].address_offset
              /\ ReadEnd(i)
                   = placed[i].read + instructions[i].instruction.length
              /\ EmittedEnd(i) > placed[i].offset
        /\ placed # <<>> =>
              touched = placed[Len(placed)].offset .. (bytes_written - 1)
        /\ AllRelocated =>
              /\ bytes_read = analysis_bytes_read
              /\ instructions_read = Len(instructions)

\* Two instructions were relocated, the first one by synthesis and the
\* second one by enlargement, so that more bytes were written than read.
C10_Witness ==
    /\ pc = "relocating"
    /\ AllRelocated
    /\ Len(placed) = 2
    /\ placed[1].strategy = "branch-synthesized"
    /\ placed[2].strategy = "branch-enlarged"
    /\ bytes_written > bytes_read

(* C11: ZyrexRelocateInstruction never reaches the unreachable arm of the
   dispatcher for an instruction the analyzer produced: every analyzed
   instruction with has_relative_target is a relative branch or has a
   relative memory operand. *)
C11_DispatcherTotal ==
    /\ status # "UNREACHABLE"
    /\ AnalysisSucceeded =>
          \A i \in 1..instructions_read :
              instructions[i].has_relative_target =>
                  \/ ZyrexIsRelativeBranchInstruction(
                         instructions[i].instruction)
                  \/ ZyrexIsRelativeMemoryInstruction(
                         instructions[i].instruction)

(* C12: after a successful analysis, outgoing of an instruction is the
   'none' value if and only if the instruction has no relative target or
   has_external_target is set; otherwise it is the index of the analyzed
   instruction that begins at absolute_target_address.  This for every
   number of analyzed instructions. *)
C12_OutgoingIsTargetIndex ==
    AnalysisSucceeded =>
        \A k \in 1..Len(instructions) :
            /\ instructions[k].outgoing = OutgoingNone
                  <=> (~instructions[k].has_relative_target
                          \/ instructions[k].has_external_target)
            /\ Internal(k) => instructions[k].outgoing = TargetOf(k) - 1

\* The analyzed instructions that begin at the absolute target of
\* instruction k.
BeginningAtTargetOf(k) ==
    { i \in 1..Len(instructions) :
        instructions[i].address = instructions[k].absolute_target_address }

\* The target of instruction k lies in the bytes that were read.
TargetInsideChunk(k) ==
    /\ ~ULess(instructions[k].absolute_target_address, source)
    /\ ULess(instructions[k].absolute_target_address,
             Add64(source, W64(analysis_bytes_read)))

(* C13: after a successful analysis, an instruction has_external_target    *)
(* exactly when it has a relative target and no analyzed instruction,      *)
(* itself included, begins at its absolute target address; so a target     *)
(* inside the bytes read that is not an instruction boundary is external,  *)
(* and has_external_target implies has_relative_target.                    *)
C13_ExternalIffNoInstructionAtTarget ==
    AnalysisSucceeded =>
        \A k \in 1..Len(instructions) :
            /\ instructions[k].has_external_target
                  <=> (instructions[k].has_relative_target
                          /\ BeginningAtTargetOf(k) = {})
            /\ instructions[k].has_external_target
                  => instructions[k].has_relative_target

\* An analyzed branch whose target lies inside the bytes read, but inside
\* an instruction, is marked external; another is marked internal.
C13_Witness ==
    /\ AnalysisSucceeded
    /\ \E k \in 1..Len(instructions) :
          /\ instructions[k].has_external_target
          /\ TargetInsideChunk(k)
          /\ BeginningAtTargetOf(k) = {}

\* The analyzed instructions with a relative target at the address of
\* instruction i.
SourcesOf(i) ==
    { j \in 1..Len(instructions) :
        /\ instructions[j].has_relative_target
        /\ instructions[j].absolute_target_address = instructions[i].address }

\* The incoming vector of instruction i holds the ids of `sources` (the
\* index less one), each once, ascending.
IncomingHolds(i, sources) ==
    LET data == instructions[i].incoming.data
    IN  /\ Len(data) = Cardinality(sources)
        /\ { data[n] : n \in 1..Len(data) } = { j - 1 : j \in sources }
        /\ \A n \in 1..(Len(data) - 1) : data[n] < data[n + 1]

(* C14: after a successful analysis the cross-reference graph is           *)
(* consistent: the id of j is in the incoming list of i, once and in       *)
(* ascending order, exactly when j has a relative target at the address of *)
(* i, exactly when the outgoing of j is the id of i; i is an internal      *)
(* target exactly when its incoming list exists and is not empty; an       *)
(* instruction that targets itself is its own incoming and outgoing.       *)
C14_CrossReferenceConsistent ==
    AnalysisSucceeded =>
        \A i \in 1..Len(instructions) :
            /\ \A j \in 1..Len(instructions) :
                  j \in SourcesOf(i) <=> instructions[j].outgoing = i - 1
            /\ instructions[i].is_internal_target
                  <=> instructions[i].incoming.init
            /\ instructions[i].is_internal_target <=> SourcesOf(i) # {}
            /\ IncomingHolds(i, SourcesOf(i))

\* Instruction k has an internal target, and it or its target has not been
\* relocated yet.
Premature(k) ==
    /\ Internal(k)
    /\ k > instructions_read \/ TargetOf(k) > instructions_read

\* The destination offsets of the operand field of the relocated
\* instruction k.
FieldOf(k) ==
    (placed[k].offset + FieldOffset(k))
        .. (placed[k].offset + FieldOffset(k) + FieldBytes(k) - 1)

\* The chunk lies within 256 source bytes and 256 destination bytes.
Within256 == analysis_bytes_read <= 256 /\ bytes_written <= 256

\* A step of ZyrexUpdateInstructionsOffsets that is run too early returns
\* not-found and has stored nothing into the field of an instruction that
\* is not resolved yet.
PrematureUpdateFails ==
    (UpdateOffsets /\ \E k \in 1..Len(instructions) : Premature(k)) =>
        /\ status' = "NOT_FOUND"
        /\ \A k \in 1..instructions_read :
              Premature(k) => touched' \cap FieldOf(k) = {}

(* C15 as stated: run after every instruction was relocated in order, in  *)
(* a chunk within 256 source and destination bytes, the fix-up pass never  *)
(* returns not-found; run while an instruction with an internal target or  *)
(* its target is not relocated yet, it returns not-found for that          *)
(* instruction and writes no displacement for it.                          *)
C15_PhaseOrdering ==
    /\ []((AllRelocated /\ Within256) => status # "NOT_FOUND")
    /\ [][PrematureUpdateFails]_vars

(* C15, amended: the same, the second part as well for chunks within 256   *)
(* source and destination bytes.                                           *)
C15_PhaseOrderingWithin256 ==
    /\ []((AllRelocated /\ Within256) => status # "NOT_FOUND")
    /\ [][(analysis_bytes_read <= 256 /\ bytes_written <= 256)
            => PrematureUpdateFails]_vars

\* The fix-up pass was run too early in a small chunk: it resolved an
\* earlier instruction and returned not-found for a later one.
C15_Witness ==
    /\ Within256
    /\ status = "NOT_FOUND"
    /\ touched # {}
    /\ \E k \in 1..Len(instructions) : Premature(k)

(* C16: in every state of the analysis, the one returned when the          *)
(* allocation of an incoming list fails included, an instruction's         *)
(* incoming list exists exactly when is_internal_target is set; so the     *)
(* element destructor never destroys an incoming list that was not         *)
(* allocated.                                                              *)
C16_IncomingExistsIffInternalTarget ==
    /\ \A k \in 1..Len(instructions) :
          instructions[k].incoming.init <=> instructions[k].is_internal_target
    /\ \A k \in destroyed : instructions[k].incoming.init
    /\ pc # "crashed"

\* The relocated instruction t was enlarged or expanded into the
\* three-instruction sequence.
Rewritten(t) ==
    placed[t].strategy \in {"branch-synthesized", "branch-enlarged"}

\* What the fix-up pass looks up for instruction k.
LookedUp(k) ==
    ZyrexGetRelocatedInstructionOffset(translation_map,
        U8(instructions[k].address_offset), 1)

\* The instruction i with an internal target whose target was rewritten is
\* resolved against the first instruction emitted for the target, from the
\* first instruction emitted for i.
ResolvedToFirstEmitted(i) ==
    LET t == TargetOf(i)
    IN  /\ LookedUp(t) = [status |-> "SUCCESS", offset |-> placed[t].offset]
        /\ LookedUp(i) = [status |-> "SUCCESS", offset |-> placed[i].offset]
        /\ Emitted(placed[i].offset + FieldOffset(i), FieldBytes(i))
             = Trunc(W64(placed[t].offset - placed[i].offset
                           - instructions[i].instruction.length),
                     FieldBytes(i))

(* C17 as stated: when the target of an instruction with an internal       *)
(* target was itself enlarged or expanded into the three-instruction       *)
(* sequence, the fix-up pass resolves the target to the destination offset *)
(* of the first instruction emitted for it, and the instruction's own      *)
(* offset by the same first-item rule.                                     *)
C17_FirstItemLookup ==
    FixedUp =>
        \A i \in 1..Len(instructions) :
            (Internal(i) /\ Rewritten(TargetOf(i))) => ResolvedToFirstEmitted(i)

(* C17, amended: the same for a chunk within 256 source and destination    *)
(* bytes.                                                                  *)
C17_FirstItemLookupWithin256 ==
    (FixedUp /\ Within256) =>
        \A i \in 1..Len(instructions) :
            (Internal(i) /\ Rewritten(TargetOf(i))) => ResolvedToFirstEmitted(i)

\* A small chunk went through relocation and fix-up in which a branch
\* targets a branch that was expanded into the three-instruction sequence.
C17_Witness ==
    /\ FixedUp
    /\ Within256
    /\ \E i \in 1..Len(instructions) :
          /\ Internal(i)
          /\ placed[TargetOf(i)].strategy = "branch-synthesized"

\* The items of the map stay as they are; items are only appended.
MapAppendOnly ==
    /\ Len(translation_map') >= Len(translation_map)
    /\ SubSeq(translation_map', 1, Len(translation_map)) = translation_map

\* Along the map offset_source never decreases and offset_destination
\* increases.
MapOrdered ==
    \A n \in 1..(Len(translation_map) - 1) :
        /\ translation_map[n].offset_source
              <= translation_map[n + 1].offset_source
        /\ translation_map[n].offset_destination
              < translation_map[n + 1].offset_destination

(* C18: the translation map is append-only and ordered: no call changes or *)
(* removes an item, offset_source is non-decreasing and offset_destination *)
(* strictly increasing along the whole map, whatever the length of an      *)
(* expanded branch.                                                        *)
C18_MapAppendOnlyOrdered ==
    /\ []MapOrdered
    /\ [][MapAppendOnly]_vars

\* The destination offsets at which this step changes a byte.
Changed == { k \in 0..(Len(memory) - 1) : memory'[k + 1] # memory[k + 1] }

\* A ZyrexRelocateInstruction step stores only at the offsets from
\* bytes_written before the call up to bytes_written after it, and leaves
\* the source buffer, the analyzed instructions and the record of the earlier
\* calls as they are.
RelocateWritesOwnBytes ==
    Relocate =>
        /\ Changed \subseteq bytes_written..(bytes_written' - 1)
        /\ touched' \subseteq bytes_written..(bytes_written' - 1)
        /\ Emitted(0, bytes_written)
             = SubSeq(memory', 1, bytes_written)
        /\ buffer' = buffer
        /\ instructions' = instructions
        /\ SubSeq(placed', 1, Len(placed)) = placed

(* C19: each ZyrexRelocateInstruction call writes only the destination     *)
(* bytes in [bytes_written before, bytes_written after): the bytes of      *)
(* earlier calls, the source buffer and the analyzed instructions are left *)
(* unchanged, and with them the rewriting decisions taken earlier.         *)
C19_RelocateFrame == [][RelocateWritesOwnBytes]_vars

\* A call that patched the operand of a copied instruction has returned,
\* after an earlier call had emitted bytes.
C19_Witness ==
    /\ pc = "relocating"
    /\ Len(placed) >= 2
    /\ placed[Len(placed)].strategy \in {"branch-patched", "memory-patched"}
    /\ touched # {}
    /\ placed[Len(placed)].offset > 0

\* The last analyzed instruction.
LastAnalyzed == instructions[Len(instructions)]

(* C20: the decode pass comes to an end for every buffer and every         *)
(* bytes_to_analyze >= 1: each decoded instruction advances the offset by  *)
(* at least one byte.  On success the last analyzed instruction starts     *)
(* below bytes_to_analyze, so *bytes_read exceeds bytes_to_analyze by less *)
(* than its length, and *bytes_read is at most the length of the buffer.   *)
(* When bytes_to_analyze exceeds the length of the buffer, the analysis    *)
(* fails with the status of the decoder (unless an allocation failed       *)
(* first).                                                                 *)
C20_DecodePassEnds ==
    /\ AnalysisSucceeded =>
          /\ Len(instructions) >= 1
          /\ Len(instructions) <= bytes_to_analyze
          /\ \A k \in 1..Len(instructions) :
                /\ instructions[k].instruction.length >= 1
                /\ instructions[k].address_offset >= k - 1
          /\ LastAnalyzed.address_offset < bytes_to_analyze
          /\ analysis_bytes_read >= bytes_to_analyze
          /\ analysis_bytes_read - bytes_to_analyze
                < LastAnalyzed.instruction.length
          /\ analysis_bytes_read <= Len(buffer)
    /\ (pc # "start" /\ bytes_to_analyze > Len(buffer)) =>
          /\ status \in {"DECODE_FAILED", "OUT_OF_MEMORY"}
          /\ pc \in {"failed", "destroyed"}

\* An analysis succeeded that read past bytes_to_analyze to keep its last
\* instruction whole; and an analysis was asked for more than the buffer
\* holds.
C20_Witness ==
    /\ AnalysisSucceeded
    /\ Len(instructions) >= 2
    /\ analysis_bytes_read > bytes_to_analyze

\* An analysis that was asked for more bytes than the buffer holds failed.
ExceedingBufferFailed ==
    pc = "failed" /\ bytes_to_analyze > Len(buffer) /\ status = "DECODE_FAILED"

\* The destination offsets of the operand fields of the relocated
\* instructions that have an internal target.
InternalFields ==
    UNION { FieldOf(k) : k \in { i \in 1..Len(placed) : Internal(i) } }

\* A step of ZyrexUpdateInstructionsOffsets changes and stores to no
\* destination byte outside the operand fields of the instructions with an
\* internal target.
UpdateWritesFieldsOnly ==
    UpdateOffsets =>
        /\ Changed \subseteq InternalFields
        /\ touched' \subseteq InternalFields

\* A step of ZyrexUpdateInstructionsOffsets leaves the counters and the map
\* as they are, and run again right after a run it leaves the destination
\* as it is.
UpdateKeepsContext ==
    UpdateOffsets =>
        /\ bytes_read' = bytes_read
        /\ bytes_written' = bytes_written
        /\ instructions_read' = instructions_read
        /\ translation_map' = translation_map
        /\ pc = "updated" => memory' = memory

\* Whenever ZyrexUpdateInstructionsOffsets may be called, calling it again
\* on the context it returns leaves the destination as the first call left
\* it.
UpdateIdempotent ==
    pc \in {"relocating", "updated"} =>
        \A once \in { ZyrexUpdateInstructionsOffsets(Context, instructions) } :
            \A twice \in { ZyrexUpdateInstructionsOffsets(
                               [once EXCEPT !.status = "SUCCESS"],
                               instructions) } :
                /\ twice.memory = once.memory
                /\ twice.status = once.status

(* C21 as stated: ZyrexUpdateInstructionsOffsets is idempotent and touches *)
(* only the patched fields: a second run on the same context leaves the    *)
(* destination unchanged, any run changes no destination byte outside the  *)
(* immediate or displacement fields of the instructions with an internal   *)
(* target, and none changes bytes_read, bytes_written, instructions_read   *)
(* or the translation map.                                                 *)
C21_UpdateIdempotentFrame ==
    /\ []UpdateIdempotent
    /\ [][UpdateKeepsContext /\ UpdateWritesFieldsOnly]_vars

(* C21, amended: the same, the bytes changed being confined to the fields  *)
(* in a chunk within 256 source and destination bytes.                     *)
C21_UpdateIdempotentFrameWithin256 ==
    /\ []UpdateIdempotent
    /\ [][UpdateKeepsContext /\ (Within256 => UpdateWritesFieldsOnly)]_vars

\* The fix-up pass has run with success on a small chunk and stored an
\* operand, while instructions were still to be relocated.
C21_Witness ==
    /\ pc = "updated"
    /\ Within256
    /\ touched # {}
    /\ instructions_read < Len(instructions)

=============================================================================
